---- MODULE Spec2Model ----
(***************************************************************************)
(* A model of the ldapdn package (vetinari/go-ldapdn): distinguished names *)
(* as heap objects (DN -> slice of *RelativeDN -> slice of AVA), their     *)
(* stringification, comparison, tree edits and the DNS sort order.         *)
(*                                                                         *)
(* Strings are sequences of byte values (ASCII), so that strings.ToLower,  *)
(* the byte-wise string comparison of Go and escapeValue are computed as   *)
(* the code computes them.                                                 *)
(***************************************************************************)
EXTENDS Integers, Sequences, FiniteSets, TLC

VARIABLES
    dns,    \* heap of DN objects: sequence of [RDNs, CaseFold, StringFold], a *DN is an index
    rdns,   \* heap of RelativeDN objects: sequence of attribute lists, a *RelativeDN is an index
    last,   \* the last call made: its name, receiver, argument, result, and the
            \* receiver's RDN pointers before the call
    cl,     \* the last Clone call: source, clone, what each held after it, and which
            \* of the two was the receiver of a Rename, Append, Move or Strip since
    edits   \* SpecClone: the number of Rename, Append, Move and Strip calls made

vars == <<dns, rdns, last, cl, edits>>

---------------------------------------------------------------------------
(* Strings *)

\* The printable ASCII characters, in order, starting at code 32.
Printable ==
    << " ", "!", "\"", "#", "$", "%", "&", "'", "(", ")", "*", "+", ",", "-", ".", "/",
       "0", "1", "2", "3", "4", "5", "6", "7", "8", "9", ":", ";", "<", "=", ">", "?",
       "@", "A", "B", "C", "D", "E", "F", "G", "H", "I", "J", "K", "L", "M", "N", "O",
       "P", "Q", "R", "S", "T", "U", "V", "W", "X", "Y", "Z", "[", "\\", "]", "^", "_",
       "backquote", "a", "b", "c", "d", "e", "f", "g", "h", "i", "j", "k", "l", "m", "n", "o",
       "p", "q", "r", "s", "t", "u", "v", "w", "x", "y", "z", "{", "|", "}", "~" >>

\* The byte value of a one-character string.
Code(ch) == 31 + CHOOSE i \in 1..Len(Printable) : Printable[i] = ch

\* A Go string from a tuple of one-character strings.
Str(t) == [i \in 1..Len(t) |-> Code(t[i])]

\* Go's < on strings: byte-wise lexicographic, a proper prefix is smaller.
RECURSIVE StrLess(_, _)
StrLess(a, b) ==
    IF b = <<>> THEN FALSE
    ELSE IF a = <<>> THEN TRUE
    ELSE IF Head(a) # Head(b) THEN Head(a) < Head(b)
    ELSE StrLess(Tail(a), Tail(b))

\* strings.ToLower on ASCII text.
LowerByte(c) == IF c >= 65 /\ c <= 90 THEN c + 32 ELSE c

ToLower(s) == [i \in 1..Len(s) |-> LowerByte(s[i])]

\* strings.EqualFold on ASCII text.
EqualFold(a, b) == ToLower(a) = ToLower(b)

\* The ASCII white space strings.TrimSpace removes: \t \n \v \f \r and space.
IsSpace(c) == c \in {9, 10, 11, 12, 13, 32}

RECURSIVE TrimLeft(_)
TrimLeft(s) == IF s # <<>> /\ IsSpace(Head(s)) THEN TrimLeft(Tail(s)) ELSE s

RECURSIVE TrimRight(_)
TrimRight(s) ==
    IF s # <<>> /\ IsSpace(s[Len(s)]) THEN TrimRight(SubSeq(s, 1, Len(s) - 1)) ELSE s

TrimSpace(s) == TrimRight(TrimLeft(s))

\* strings.Join
RECURSIVE Join(_, _)
Join(parts, sep) ==
    IF parts = <<>> THEN <<>>
    ELSE IF Len(parts) = 1 THEN parts[1]
    ELSE parts[1] \o sep \o Join(Tail(parts), sep)

---------------------------------------------------------------------------
(* escapeValue *)

\* , + " \ < > ; # =
Reserved == {44, 43, 34, 92, 60, 62, 59, 35, 61}

\* One lowercase hex digit, as encoding/hex writes it.
HexDigit(n) == IF n < 10 THEN 48 + n ELSE 87 + n

\* An escape that copies control characters unchanged.
EscapeRuneNoControl(r) == IF r \in Reserved THEN <<92, r>> ELSE <<r>>

\* The body of the loop of escapeValue for the rune r.
EscapeRune(r) ==
    IF r \in Reserved THEN <<92, r>>
    ELSE IF r < 32 THEN <<92, HexDigit(r \div 16), HexDigit(r % 16)>>
    ELSE <<r>>

RECURSIVE escapeValue(_)
escapeValue(value) ==
    IF value = <<>> THEN <<>>
    ELSE EscapeRune(Head(value)) \o escapeValue(Tail(value))

---------------------------------------------------------------------------
(* Attribute lists and their canonical text (RelativeDN.String, DN.String) *)

\* An AVA is [Type |-> string, Value |-> string]; an attribute list is a sequence of AVAs.

\* ava.Less: the raw attribute types compared as Go strings.
avaLess(a, b) == StrLess(a.Type, b.Type)

\* One pass of the inner loop of an insertion sort: the element at index j moves
\* down while it is less than its left neighbour.
RECURSIVE SinkAVA(_, _)
SinkAVA(a, j) ==
    IF j > 1 /\ avaLess(a[j], a[j - 1])
    THEN SinkAVA([a EXCEPT ![j] = a[j - 1], ![j - 1] = a[j]], j - 1)
    ELSE a

RECURSIVE InsertionSortAVA(_, _)
InsertionSortAVA(a, i) ==
    IF i > Len(a) THEN a ELSE InsertionSortAVA(SinkAVA(a, i), i + 1)

\* sort.Sort(ava(attrs)): for the short lists of an RDN sort.Sort is an insertion sort.
SortAVA(attrs) == InsertionSortAVA(attrs, 2)

\* strings.ToLower(a.Type) + "=" + escapeValue(a.Value)
AVAString(a) == ToLower(a.Type) \o <<61>> \o escapeValue(a.Value)

\* RelativeDN.String: what it returns for an attribute list. The call sorts the
\* list in place first (SortAVA), which the heap operations record.
RDNString(attrs) ==
    Join([i \in 1..Len(attrs) |-> AVAString(SortAVA(attrs)[i])], <<43>>)

\* DN.String on the attribute lists of a DN's RDNs.
DNStringOf(lists, stringFold) ==
    LET joined == Join([i \in 1..Len(lists) |-> RDNString(lists[i])], <<44>>)
    IN  IF stringFold THEN ToLower(joined) ELSE joined

---------------------------------------------------------------------------
(* ldap.ParseDN: the parser of DN text, after the grammar of the specification *)

IsLetter(c) == (c >= 65 /\ c <= 90) \/ (c >= 97 /\ c <= 122)

IsDigit(c) == c >= 48 /\ c <= 57

IsHex(c) == IsDigit(c) \/ (c >= 65 /\ c <= 70) \/ (c >= 97 /\ c <= 102)

HexVal(c) == IF IsDigit(c) THEN c - 48 ELSE IF c >= 97 THEN c - 87 ELSE c - 55

ParseFail == [ok |-> FALSE, val |-> <<>>]

ParseOk(v) == [ok |-> TRUE, val |-> v]

\* The pieces of str between the separators sep that are neither escaped by a
\* backslash nor inside double quotes.
RECURSIVE SplitScan(_, _, _, _, _, _, _)
SplitScan(str, sep, i, cur, acc, esc, quoted) ==
    IF i > Len(str) THEN Append(acc, cur)
    ELSE IF esc THEN SplitScan(str, sep, i + 1, Append(cur, str[i]), acc, FALSE, quoted)
    ELSE IF str[i] = 92 THEN SplitScan(str, sep, i + 1, Append(cur, str[i]), acc, TRUE, quoted)
    ELSE IF str[i] = 34 THEN SplitScan(str, sep, i + 1, Append(cur, str[i]), acc, FALSE, ~quoted)
    ELSE IF str[i] = sep /\ ~quoted THEN SplitScan(str, sep, i + 1, <<>>, Append(acc, cur), FALSE, FALSE)
    ELSE SplitScan(str, sep, i + 1, Append(cur, str[i]), acc, FALSE, quoted)

SplitTop(str, sep) == SplitScan(str, sep, 1, <<>>, <<>>, FALSE, FALSE)

\* AttrType: a descriptor (letter, then letters, digits, hyphens) or a dotted OID.
RECURSIVE IsOid(_, _)
IsOid(t, needDigit) ==
    IF t = <<>> THEN ~needDigit
    ELSE IF IsDigit(Head(t)) THEN IsOid(Tail(t), FALSE)
    ELSE IF Head(t) = 46 /\ ~needDigit THEN IsOid(Tail(t), TRUE)
    ELSE FALSE

ValidType(t) ==
    /\ t # <<>>
    /\ \/ IsLetter(t[1]) /\ \A i \in 1..Len(t) : IsLetter(t[i]) \/ IsDigit(t[i]) \/ t[i] = 45
       \/ IsOid(t, TRUE)

\* An optional case-insensitive "oid." prefix is stripped.
StripOid(t) ==
    IF Len(t) >= 4 /\ ToLower(SubSeq(t, 1, 4)) = <<111, 105, 100, 46>>
    THEN SubSeq(t, 5, Len(t)) ELSE t

\* Escaper.unescape: a backslash before a reserved character or a space stands for
\* that character, a backslash before two hex digits for one byte; any other
\* backslash, and a reserved character left unescaped, is an error.
RECURSIVE Unescape(_)
Unescape(t) ==
    IF t = <<>> THEN ParseOk(<<>>)
    ELSE IF Head(t) = 92 THEN
        IF Len(t) >= 2 /\ t[2] \in Reserved \cup {32} THEN
            LET rest == Unescape(SubSeq(t, 3, Len(t)))
            IN  IF rest.ok THEN ParseOk(<<t[2]>> \o rest.val) ELSE ParseFail
        ELSE IF Len(t) >= 3 /\ IsHex(t[2]) /\ IsHex(t[3]) THEN
            LET rest == Unescape(SubSeq(t, 4, Len(t)))
            IN  IF rest.ok THEN ParseOk(<<16 * HexVal(t[2]) + HexVal(t[3])>> \o rest.val)
                ELSE ParseFail
        ELSE ParseFail
    ELSE IF Head(t) \in Reserved THEN ParseFail
    ELSE LET rest == Unescape(Tail(t))
         IN  IF rest.ok THEN ParseOk(<<Head(t)>> \o rest.val) ELSE ParseFail

\* The bytes a string of hex digit pairs stands for.
RECURSIVE HexDecode(_)
HexDecode(h) ==
    IF h = <<>> THEN <<>>
    ELSE <<16 * HexVal(h[1]) + HexVal(h[2])>> \o HexDecode(SubSeq(h, 3, Len(h)))

\* The number of backslashes that end t.
RECURSIVE TrailingBackslashes(_)
TrailingBackslashes(t) ==
    IF t # <<>> /\ t[Len(t)] = 92 THEN 1 + TrailingBackslashes(SubSeq(t, 1, Len(t) - 1)) ELSE 0

\* White space at the end of a value is dropped unless a backslash escapes it.
RECURSIVE TrimValueRight(_)
TrimValueRight(t) ==
    IF t # <<>> /\ IsSpace(t[Len(t)]) /\ TrailingBackslashes(SubSeq(t, 1, Len(t) - 1)) % 2 = 0
    THEN TrimValueRight(SubSeq(t, 1, Len(t) - 1)) ELSE t

\* AttrValue: #hex, a quoted string, or an unquoted run decoded by Unescape.
ParseValue(t) ==
    IF t = <<>> THEN ParseOk(<<>>)
    ELSE IF t[1] = 35 THEN
        IF Len(t) >= 3 /\ (Len(t) - 1) % 2 = 0 /\ \A i \in 2..Len(t) : IsHex(t[i])
        THEN ParseOk(HexDecode(Tail(t))) ELSE ParseFail
    ELSE IF t[1] = 34 THEN
        IF Len(t) >= 2 /\ t[Len(t)] = 34 /\ \A i \in 2..(Len(t) - 1) : t[i] \notin {34, 92}
        THEN ParseOk(SubSeq(t, 2, Len(t) - 1)) ELSE ParseFail
    ELSE Unescape(t)

\* AVA := AttrType '=' AttrValue, white space around both trimmed.
ParseAVA(t) ==
    LET eqs == {i \in 1..Len(t) : t[i] = 61}
    IN  IF eqs = {} THEN ParseFail
        ELSE LET eq  == CHOOSE i \in eqs : \A k \in eqs : i <= k
                 typ == StripOid(TrimSpace(SubSeq(t, 1, eq - 1)))
                 v   == ParseValue(TrimValueRight(TrimLeft(SubSeq(t, eq + 1, Len(t)))))
             IN  IF ValidType(typ) /\ v.ok
                 THEN ParseOk([Type |-> typ, Value |-> v.val]) ELSE ParseFail

\* RDN := AVA ('+' AVA)*, the AVAs in the order of the text.
ParseRDN(t) ==
    LET parts == SplitTop(t, 43)
        avas  == [i \in 1..Len(parts) |-> ParseAVA(parts[i])]
    IN  IF \A i \in 1..Len(parts) : avas[i].ok
        THEN ParseOk([i \in 1..Len(parts) |-> avas[i].val]) ELSE ParseFail

\* DN := RDN (',' RDN)*; the empty string is the DN with no RDN. The whole input
\* must match. The result lists the RDNs leaf first, each an attribute list.
ParseDN(str) ==
    IF str = <<>> THEN ParseOk(<<>>)
    ELSE LET parts == SplitTop(str, 44)
             rs    == [i \in 1..Len(parts) |-> ParseRDN(parts[i])]
         IN  IF \A i \in 1..Len(parts) : rs[i].ok
             THEN ParseOk([i \in 1..Len(parts) |-> rs[i].val]) ELSE ParseFail

---------------------------------------------------------------------------
(* New and CanonicalDN on text *)

\* New: the RDNs of ldap.ParseDN, each attribute type passed through
\* strings.TrimSpace; the attribute lists keep the order ParseDN gave them.
NewLists(str) ==
    LET p == ParseDN(str)
    IN  IF ~p.ok THEN ParseFail
        ELSE ParseOk([i \in 1..Len(p.val) |->
                 [k \in 1..Len(p.val[i]) |->
                     [Type |-> TrimSpace(p.val[i][k].Type), Value |-> p.val[i][k].Value]]])

\* CanonicalDN(dn, fold...): New(dn, fold...) then String(); StringFold is the
\* first fold argument, false when there is none.
CanonicalDN(str, fold) ==
    LET n == NewLists(str)
    IN  IF ~n.ok THEN ParseFail ELSE ParseOk(DNStringOf(n.val, fold))

---------------------------------------------------------------------------
(* The heap: DN and RelativeDN objects *)

\* A *DN is an index of dns, a *RelativeDN an index of rdns; Nil is the nil pointer.
\* dns[d].RDNs is the slice of d: the package never makes two DN objects share one
\* slice (New, Clone, Parent and Reverse build a new one, Append, Strip, Move and
\* Rename work on the receiver's own), so a slice is modelled by the sequence of
\* RelativeDN pointers it holds.
Nil == 0

\* The longest DN and the number of DN objects the model builds.
MaxLen == 2

MaxDNs == 2

\* The number of edit calls (Rename, Append, Move, Strip) a run of SpecClone makes.
MaxEdits == 3

\* RelativeDN.Equal on two attribute lists: same length, and at every index the
\* types equal ignoring case and the values equal (ignoring case when fold).
RECURSIVE RDNEqualFrom(_, _, _, _)
RDNEqualFrom(r, o, fold, i) ==
    IF i > Len(r) THEN TRUE
    ELSE IF ToLower(r[i].Type) # ToLower(o[i].Type) THEN FALSE
    ELSE IF fold /\ ~EqualFold(r[i].Value, o[i].Value) THEN FALSE
    ELSE IF ~fold /\ r[i].Value # o[i].Value THEN FALSE
    ELSE RDNEqualFrom(r, o, fold, i + 1)

RDNEqual(r, o, fold) ==
    IF Len(r) # Len(o) THEN FALSE ELSE RDNEqualFrom(r, o, fold, 1)

\* DN.Equal in the heap (D, R): same number of RDNs, each RDN of dn Equal to the
\* RDN of other at the same index under dn.CaseFold.
RECURSIVE DNEqualFrom(_, _, _, _, _)
DNEqualFrom(D, R, d, other, i) ==
    IF i > Len(D[d].RDNs) THEN TRUE
    ELSE IF ~RDNEqual(R[D[d].RDNs[i]], R[D[other].RDNs[i]], D[d].CaseFold) THEN FALSE
    ELSE DNEqualFrom(D, R, d, other, i + 1)

DNEqualIn(D, R, d, other) ==
    IF Len(D[d].RDNs) # Len(D[other].RDNs) THEN FALSE ELSE DNEqualFrom(D, R, d, other, 1)

\* DN.IsSubordinate in the heap (D, R).
RECURSIVE IsSubordinateFrom(_, _, _, _, _, _)
IsSubordinateFrom(D, R, d, other, off, i) ==
    IF i > Len(D[other].RDNs) THEN TRUE
    ELSE IF ~RDNEqual(R[D[other].RDNs[i]], R[D[d].RDNs[i + off]], D[d].CaseFold) THEN FALSE
    ELSE IsSubordinateFrom(D, R, d, other, off, i + 1)

IsSubordinateIn(D, R, d, other) ==
    IF other = Nil THEN FALSE
    ELSE LET off == Len(D[d].RDNs) - Len(D[other].RDNs)
         IN  IF off <= 0 THEN FALSE ELSE IsSubordinateFrom(D, R, d, other, off, 1)

\* The attribute lists of the RDNs a slice of RelativeDN pointers holds.
Lists(R, ptrs) == [i \in 1..Len(ptrs) |-> R[ptrs[i]]]

\* The RelativeDN heap after DN.String on a DN whose slice is ptrs: RelativeDN.String
\* sorts the attribute list of each of its RDNs in place.
SortedHeap(R, ptrs) ==
    [r \in 1..Len(R) |-> IF \E i \in 1..Len(ptrs) : ptrs[i] = r THEN SortAVA(R[r]) ELSE R[r]]

\* What DN.String returns for a DN with slice ptrs and the given StringFold.
DNStringIn(R, ptrs, stringFold) == DNStringOf(Lists(R, ptrs), stringFold)

\* DN.Reverse: the slice of the new DN, the receiver's pointers in reverse order.
ReverseRDNs(ptrs) == [i \in 1..Len(ptrs) |-> ptrs[Len(ptrs) + 1 - i]]

\* DN.Append: the receiver's slice after the call.
AppendRDNs(ptrs, otherPtrs) == ptrs \o otherPtrs

\* A Strip that drops the leading RDNs instead of the trailing ones.
StripRDNsFromFront(ptrs, basePtrs) == SubSeq(ptrs, Len(basePtrs) + 1, Len(ptrs))

\* DN.Strip: the receiver's slice after a successful call.
StripRDNs(ptrs, basePtrs) == SubSeq(ptrs, 1, Len(ptrs) - Len(basePtrs))

\* A Move that keeps the receiver's previous ancestors below its leaf.
MoveRDNsKeepAncestors(ptrs, basePtrs) == AppendRDNs(ptrs, basePtrs)

\* DN.Move: the receiver's slice after the call.
MoveRDNs(ptrs, basePtrs) == AppendRDNs(SubSeq(ptrs, 1, 1), basePtrs)

\* DN.Rename: the receiver's slice after the call.
RenameRDNs(ptrs, rdn) == [ptrs EXCEPT ![1] = rdn]

\* DN.Clone: the attribute lists of the RelativeDN objects it allocates, one per
\* RDN of the receiver, each AVA copied.
CloneLists(R, ptrs) ==
    [i \in 1..Len(ptrs) |->
        [k \in 1..Len(R[ptrs[i]]) |->
            [Type |-> R[ptrs[i]][k].Type, Value |-> R[ptrs[i]][k].Value]]]

\* The pointers of n RelativeDN objects allocated on a heap that holds `have`.
Fresh(have, n) == [i \in 1..n |-> have + i]

\* A Clone that hands back the receiver instead of a copy.
CloneHeapAlias(D, R, d) == [dns |-> D, rdns |-> R, c |-> d]

\* DN.Clone in the heap (D, R): a new DN c, its flags at their zero value, over
\* one new RelativeDN per RDN of the receiver.
CloneHeap(D, R, d) ==
    [dns  |-> Append(D, [RDNs |-> Fresh(Len(R), Len(D[d].RDNs)),
                         CaseFold |-> FALSE, StringFold |-> FALSE]),
     rdns |-> R \o CloneLists(R, D[d].RDNs),
     c    |-> Len(D) + 1]

\* A Parent that drops the root RDN of the clone instead of its leaf.
ParentRDNsDropRoot(ptrs) == IF Len(ptrs) > 0 THEN SubSeq(ptrs, 1, Len(ptrs) - 1) ELSE <<>>

\* DN.Parent: the slice of the clone c after c.RDNs = c.RDNs[1:], or the empty
\* slice when c has no RDN.
ParentRDNs(ptrs) == IF Len(ptrs) > 0 THEN SubSeq(ptrs, 2, Len(ptrs)) ELSE <<>>

\* DN.RDN: the value of the first AVA of the first RDN, or "".
RDNValue(R, ptrs) ==
    IF Len(ptrs) = 0 \/ Len(R[ptrs[1]]) = 0 THEN <<>> ELSE R[ptrs[1]][1].Value

\* DNS.Less(i, j) in the heap (D, R), a and b the DNs at i and j: true when a is
\* subordinate to b; otherwise the reversed DNs' strings are compared, lowercased
\* when a.CaseFold. Reverse copies the flags and shares the RelativeDN objects, so
\* String on the reversed DN sorts the attribute lists of a, then of b, in place.
\* lt is the result, rdns the RelativeDN heap after the call.
LessIn(D, R, a, b) ==
    IF IsSubordinateIn(D, R, a, b) THEN [lt |-> TRUE, rdns |-> R]
    ELSE LET R1 == SortedHeap(R, D[a].RDNs)
             sa == DNStringIn(R1, ReverseRDNs(D[a].RDNs), D[a].StringFold)
             R2 == SortedHeap(R1, D[b].RDNs)
             sb == DNStringIn(R2, ReverseRDNs(D[b].RDNs), D[b].StringFold)
         IN  IF D[a].CaseFold
             THEN [lt |-> StrLess(ToLower(sb), ToLower(sa)), rdns |-> R2]
             ELSE [lt |-> StrLess(sb, sa), rdns |-> R2]

\* sort.Sort(DNS(xs)): for a slice this short sort.Sort is an insertion sort,
\*   for i := 1; i < n; i++ { for j := i; j > 0 && Less(j, j-1); j-- { Swap(j, j-1) } }
\* st is [xs |-> the slice, rdns |-> the RelativeDN heap]; every Less may sort
\* attribute lists.
RECURSIVE SinkDN(_, _, _)
SinkDN(D, st, j) ==
    IF j <= 1 THEN st
    ELSE LET r == LessIn(D, st.rdns, st.xs[j], st.xs[j - 1])
         IN  IF r.lt
             THEN SinkDN(D, [xs   |-> [st.xs EXCEPT ![j] = st.xs[j - 1], ![j - 1] = st.xs[j]],
                             rdns |-> r.rdns], j - 1)
             ELSE [xs |-> st.xs, rdns |-> r.rdns]

RECURSIVE InsertionSortDN(_, _, _)
InsertionSortDN(D, st, i) ==
    IF i > Len(st.xs) THEN st ELSE InsertionSortDN(D, SinkDN(D, st, i), i + 1)

SortDNS(D, R, xs) == InsertionSortDN(D, [xs |-> xs, rdns |-> R], 2)

---------------------------------------------------------------------------
(* The calls *)

\* The DN texts the calls of New are given: a two-level entry with a two-valued
\* leaf RDN written in both orders, its base in two letter cases, a sibling
\* leaf, and a text that does not parse.
HeapTexts ==
    { Str(<<"o", "u", "=", "a", "+", "c", "n", "=", "b", ",", "d", "c", "=", "X">>),
      Str(<<"c", "n", "=", "b", "+", "o", "u", "=", "a", ",", "d", "c", "=", "X">>),
      Str(<<"d", "c", "=", "X">>),
      Str(<<"d", "c", "=", "x">>),
      Str(<<"c", "n", "=", "b", ",", "x">>) }

DNs == 1..Len(dns)

Call(op, d, arg, ret, pre) == [op |-> op, dn |-> d, arg |-> arg, ret |-> ret, pre |-> pre]

NoClone == [src |-> Nil, c |-> Nil, srcVal |-> <<>>, cVal |-> <<>>, touched |-> {}]

\* cl after a Rename, Append, Move or Strip call on d.
Touch(d) ==
    IF d = cl.src THEN [cl EXCEPT !.touched = @ \cup {"src"}]
    ELSE IF d = cl.c THEN [cl EXCEPT !.touched = @ \cup {"c"}]
    ELSE cl

Init ==
    /\ dns = <<>>
    /\ rdns = <<>>
    /\ last = Call("init", Nil, Nil, "nil", <<>>)
    /\ cl = NoClone
    /\ edits = 0

\* The heap after New(dn, fold) has parsed its text into the attribute lists
\* `lists`: one new RelativeDN per RDN and the new DN over them, CaseFold and
\* StringFold both the fold argument.
NewHeap(D, R, lists, fold) ==
    [dns  |-> Append(D, [RDNs |-> Fresh(Len(R), Len(lists)),
                         CaseFold |-> fold, StringFold |-> fold]),
     rdns |-> R \o lists]

\* New(dn, fold)
New(t, fold) ==
    /\ Len(dns) < MaxDNs
    /\ LET n == NewLists(t)
       IN  IF n.ok
           THEN /\ dns' = NewHeap(dns, rdns, n.val, fold).dns
                /\ rdns' = NewHeap(dns, rdns, n.val, fold).rdns
                /\ last' = Call("New", Len(dns) + 1, t, "nil", <<>>)
           ELSE /\ UNCHANGED <<dns, rdns>>
                /\ last' = Call("New", Nil, t, "error", <<>>)
    /\ UNCHANGED cl

\* dn.String()
String(d) ==
    /\ rdns' = SortedHeap(rdns, dns[d].RDNs)
    /\ last' = Call("String", d, Nil, DNStringIn(rdns', dns[d].RDNs, dns[d].StringFold),
                    dns[d].RDNs)
    /\ cl' = NoClone
    /\ UNCHANGED dns

\* dn.Equal(other)
Equal(d, other) ==
    /\ last' = Call("Equal", d, other, DNEqualIn(dns, rdns, d, other), dns[d].RDNs)
    /\ UNCHANGED <<dns, rdns, cl>>

\* dn.IsSubordinate(other), other possibly nil
IsSubordinate(d, other) ==
    /\ last' = Call("IsSubordinate", d, other, IsSubordinateIn(dns, rdns, d, other),
                    dns[d].RDNs)
    /\ UNCHANGED <<dns, rdns, cl>>

\* dn.RDN()
RDN(d) ==
    /\ last' = Call("RDN", d, Nil, RDNValue(rdns, dns[d].RDNs), dns[d].RDNs)
    /\ UNCHANGED <<dns, rdns, cl>>

\* dn.Append(other)
AppendDN(d, other) ==
    /\ Len(dns[d].RDNs) + Len(dns[other].RDNs) <= MaxLen
    /\ dns' = [dns EXCEPT ![d].RDNs = AppendRDNs(@, dns[other].RDNs)]
    /\ last' = Call("Append", d, other, "nil", dns[d].RDNs)
    /\ cl' = Touch(d)
    /\ UNCHANGED rdns

\* dn.Strip(base), base possibly nil
Strip(d, base) ==
    /\ IF IsSubordinateIn(dns, rdns, d, base)
       THEN /\ dns' = [dns EXCEPT ![d].RDNs = StripRDNs(@, dns[base].RDNs)]
            /\ last' = Call("Strip", d, base, "nil", dns[d].RDNs)
       ELSE /\ UNCHANGED dns
            /\ last' = Call("Strip", d, base, "ErrDNNotSubordinate", dns[d].RDNs)
    /\ cl' = Touch(d)
    /\ UNCHANGED rdns

\* dn.Rename(other.FirstRDN()); Rename panics on a DN without RDNs
Rename(d, other) ==
    /\ Len(dns[d].RDNs) >= 1
    /\ Len(dns[other].RDNs) >= 1
    /\ dns' = [dns EXCEPT ![d].RDNs = RenameRDNs(@, dns[other].RDNs[1])]
    /\ last' = Call("Rename", d, other, "nil", dns[d].RDNs)
    /\ cl' = Touch(d)
    /\ UNCHANGED rdns

\* dn.Move(newBase); Move panics on a DN without RDNs. dn.RDNs is cut to its
\* first RDN before newBase.RDNs is read, so dn.Move(dn) appends the cut slice.
Move(d, newBase) ==
    /\ Len(dns[d].RDNs) >= 1
    /\ 1 + Len(dns[newBase].RDNs) <= MaxLen
    /\ dns' = [dns EXCEPT ![d].RDNs =
                  MoveRDNs(@, IF newBase = d THEN SubSeq(@, 1, 1) ELSE dns[newBase].RDNs)]
    /\ last' = Call("Move", d, newBase, "nil", dns[d].RDNs)
    /\ cl' = Touch(d)
    /\ UNCHANGED rdns

\* c := dn.Clone()
Clone(d) ==
    /\ Len(dns) < MaxDNs
    /\ dns' = CloneHeap(dns, rdns, d).dns
    /\ rdns' = CloneHeap(dns, rdns, d).rdns
    /\ last' = Call("Clone", d, Nil, CloneHeap(dns, rdns, d).c, dns[d].RDNs)
    /\ cl' = [src |-> d, c |-> CloneHeap(dns, rdns, d).c,
              srcVal |-> Lists(rdns, dns[d].RDNs),
              cVal |-> Lists(rdns', dns'[CloneHeap(dns, rdns, d).c].RDNs),
              touched |-> {}]

\* dn.Parent(): c := dn.Clone(), then c.RDNs = c.RDNs[1:] when c has an RDN
Parent(d) ==
    /\ Len(dns) < MaxDNs
    /\ LET h == CloneHeap(dns, rdns, d)
       IN  /\ rdns' = h.rdns
           /\ dns' = [h.dns EXCEPT ![h.c].RDNs = ParentRDNs(@)]
           /\ last' = Call("Parent", d, Nil, h.c, dns[d].RDNs)
    /\ UNCHANGED cl

\* dn.Reverse(): a new DN with the receiver's flags over the receiver's RelativeDN objects
Reverse(d) ==
    /\ Len(dns) < MaxDNs
    /\ dns' = Append(dns, [RDNs |-> ReverseRDNs(dns[d].RDNs),
                           CaseFold |-> dns[d].CaseFold, StringFold |-> dns[d].StringFold])
    /\ last' = Call("Reverse", d, Nil, Len(dns) + 1, dns[d].RDNs)
    /\ UNCHANGED <<rdns, cl>>

\* DNS{a, b}.Less(0, 1)
Less(a, b) ==
    /\ rdns' = LessIn(dns, rdns, a, b).rdns
    /\ last' = Call("Less", a, b, LessIn(dns, rdns, a, b).lt, dns[a].RDNs)
    /\ cl' = NoClone
    /\ UNCHANGED dns

Next ==
    \/ \E t \in HeapTexts, fold \in BOOLEAN : New(t, fold) /\ UNCHANGED edits
    \/ \E d \in DNs : String(d) /\ UNCHANGED edits
    \/ \E d \in DNs, other \in DNs : Equal(d, other) /\ UNCHANGED edits
    \/ \E d \in DNs, other \in DNs \cup {Nil} : IsSubordinate(d, other) /\ UNCHANGED edits
    \/ \E d \in DNs : RDN(d) /\ UNCHANGED edits
    \/ \E d \in DNs, other \in DNs : AppendDN(d, other) /\ UNCHANGED edits
    \/ \E d \in DNs, base \in DNs \cup {Nil} : Strip(d, base) /\ UNCHANGED edits
    \/ \E d \in DNs, other \in DNs : Rename(d, other) /\ UNCHANGED edits
    \/ \E d \in DNs, newBase \in DNs : Move(d, newBase) /\ UNCHANGED edits
    \/ \E d \in DNs : Clone(d) /\ UNCHANGED edits
    \/ \E d \in DNs : Parent(d) /\ UNCHANGED edits
    \/ \E d \in DNs : Reverse(d) /\ UNCHANGED edits
    \/ \E a \in DNs, b \in DNs : Less(a, b) /\ UNCHANGED edits

Spec == Init /\ [][Next]_vars

\* The number of times AVA x occurs in an attribute list.
Occurrences(attrs, x) == Cardinality({i \in 1..Len(attrs) : attrs[i] = x})

\* Two attribute lists that hold the same AVAs, in any order.
SameAVAs(a, b) ==
    /\ Len(a) = Len(b)
    /\ \A i \in 1..Len(a) : Occurrences(a, a[i]) = Occurrences(b, a[i])

\* C5 (as claimed): Equal compares each RDN as a set of AVAs: two DNs with the
\* same number of RDNs whose RDNs at each index hold the same AVAs, in whatever
\* order they were written, are Equal, whether or not String was called before.
C5_EqualIgnoresAVAOrder ==
    (/\ last.op = "Equal"
     /\ Len(dns[last.dn].RDNs) = Len(dns[last.arg].RDNs)
     /\ \A i \in 1..Len(dns[last.dn].RDNs) :
            SameAVAs(rdns[dns[last.dn].RDNs[i]], rdns[dns[last.arg].RDNs[i]]))
    => last.ret = TRUE

\* No RelativeDN object is reachable from two distinct DN objects.
Exclusive ==
    \A d \in DNs, e \in DNs :
        d # e => \A i \in 1..Len(dns[d].RDNs), k \in 1..Len(dns[e].RDNs) :
                     dns[d].RDNs[i] # dns[e].RDNs[k]

\* C9 (as claimed): an Append or Move call made when no RelativeDN is shared
\* between two DNs leaves none shared.
C9_AppendMoveKeepOwnership ==
    [][(last'.op \in {"Append", "Move"} /\ Exclusive) => Exclusive']_vars

\* C10 (as claimed): String, Equal, IsSubordinate, RDN and Less are read-only:
\* a call of one of them writes no DN's slice and no attribute list.
C10_ReadOnlyCallsWriteNothing ==
    [][last'.op \in {"String", "Equal", "IsSubordinate", "RDN", "Less"}
          => dns' = dns /\ rdns' = rdns]_vars

---------------------------------------------------------------------------
(* IsSubordinate and Strip on every pair of DNs up to MaxLen RDNs *)

\* The RDN texts the DNs of SpecSub are written from: a two-valued RDN and a
\* single-valued one in two letter cases of its value.
RDNTexts ==
    { Str(<<"o", "u", "=", "a", "+", "c", "n", "=", "b">>),
      Str(<<"d", "c", "=", "X">>),
      Str(<<"d", "c", "=", "x">>) }

\* The DN texts of at most n RDNs over RDNTexts, the empty text among them.
TextsUpTo(n) ==
    { Join(parts, <<44>>) : parts \in UNION { [1..k -> RDNTexts] : k \in 0..n } }

\* The state after dn, err := New(t1, fold) and base, err := New(t2): dn is
\* object 1, base is object 2.
InitSub ==
    \E t1 \in TextsUpTo(MaxLen), t2 \in TextsUpTo(MaxLen), fold \in BOOLEAN :
        LET h1 == NewHeap(<<>>, <<>>, NewLists(t1).val, fold)
            h2 == NewHeap(h1.dns, h1.rdns, NewLists(t2).val, FALSE)
        IN  /\ dns = h2.dns
            /\ rdns = h2.rdns
            /\ last = Call("init", Nil, Nil, "nil", <<>>)
            /\ cl = NoClone
            /\ edits = 0

NextSub ==
    \/ \E d \in DNs, other \in DNs \cup {Nil} : IsSubordinate(d, other) /\ UNCHANGED edits
    \/ \E d \in DNs, base \in DNs \cup {Nil} : Strip(d, base) /\ UNCHANGED edits
    \/ \E d \in DNs : String(d) /\ UNCHANGED edits

SpecSub == InitSub /\ [][NextSub]_vars

\* The claim's own reading of "the trailing RDNs of dn equal the RDNs of other":
\* ptrs and otherPtrs are slices, compared under fold.
TrailingEqual(ptrs, otherPtrs, fold) ==
    \A i \in 1..Len(otherPtrs) :
        RDNEqual(rdns[ptrs[Len(ptrs) - Len(otherPtrs) + i]], rdns[otherPtrs[i]], fold)

\* C6 (as claimed): dn.IsSubordinate(other) is false when other is nil, has no
\* RDN, or has at least as many RDNs as dn, and otherwise true exactly when
\* dn.RDNs[off+i] equals other.RDNs[i] for every index i of other.
C6_IsSubordinateAsClaimed ==
    last.op = "IsSubordinate" =>
        IF last.arg = Nil THEN last.ret = FALSE
        ELSE IF Len(dns[last.arg].RDNs) = 0 THEN last.ret = FALSE
        ELSE IF Len(dns[last.arg].RDNs) >= Len(dns[last.dn].RDNs) THEN last.ret = FALSE
        ELSE last.ret = TrailingEqual(dns[last.dn].RDNs, dns[last.arg].RDNs,
                                      dns[last.dn].CaseFold)

---------------------------------------------------------------------------
(* Clone and the calls that edit a DN in place *)

\* The texts the DN that gets cloned is written from.
CloneTexts ==
    { Str(<<"o", "u", "=", "a", "+", "c", "n", "=", "b", ",", "d", "c", "=", "X">>),
      Str(<<"d", "c", "=", "X">>) }

\* The state after dn, err := New(t, fold): dn is object 1.
InitClone ==
    \E t \in CloneTexts, fold \in BOOLEAN :
        LET h == NewHeap(<<>>, <<>>, NewLists(t).val, fold)
        IN  /\ dns = h.dns
            /\ rdns = h.rdns
            /\ last = Call("init", Nil, Nil, "nil", <<>>)
            /\ cl = NoClone
            /\ edits = 0

NextClone ==
    \/ \E d \in DNs : Clone(d) /\ UNCHANGED edits
    \/ \E d \in DNs, other \in DNs :
           edits < MaxEdits /\ Rename(d, other) /\ edits' = edits + 1
    \/ \E d \in DNs, other \in DNs :
           edits < MaxEdits /\ AppendDN(d, other) /\ edits' = edits + 1
    \/ \E d \in DNs, newBase \in DNs :
           edits < MaxEdits /\ Move(d, newBase) /\ edits' = edits + 1
    \/ \E d \in DNs, base \in DNs \cup {Nil} :
           edits < MaxEdits /\ Strip(d, base) /\ edits' = edits + 1

SpecClone == InitClone /\ [][NextClone]_vars

\* C8: after c := dn.Clone(), as long as dn was not itself the receiver of a
\* Rename, Append, Move or Strip, dn holds the attribute lists (RDN sequence, AVA
\* types and values) it held when it was cloned, whatever was called on c; and
\* as long as c was not the receiver of one, c holds what it held after Clone,
\* whatever was called on dn.
C8_CloneIndependent ==
    cl.c # Nil =>
        /\ "src" \notin cl.touched => Lists(rdns, dns[cl.src].RDNs) = cl.srcVal
        /\ "c" \notin cl.touched => Lists(rdns, dns[cl.c].RDNs) = cl.cVal

\* The clone was edited (it no longer holds what Clone gave it) and the source
\* was not the receiver of any call since.
C8_Witness ==
    /\ cl.c # Nil
    /\ cl.touched = {"c"}
    /\ Lists(rdns, dns[cl.c].RDNs) # cl.cVal
    /\ last.op \in {"Rename", "Move"}

---------------------------------------------------------------------------
(* sort.Sort(DNS(xs)) *)

\* The texts of the DNs that are sorted: a base in two letter cases of its value
\* and entries below it, one with a two-valued RDN.
SortTexts ==
    { Str(<<"d", "c", "=", "X">>),
      Str(<<"d", "c", "=", "x">>),
      Str(<<"c", "n", "=", "b", ",", "d", "c", "=", "X">>),
      Str(<<"o", "u", "=", "a", "+", "c", "n", "=", "b", ",", "d", "c", "=", "X">>) }

\* The number of DNs in the slice that is sorted.
MaxSort == 3

\* How one DN of the slice is built: dn, _ := New(text), then the public fields
\* dn.CaseFold and dn.StringFold set.
Built == [text : SortTexts, CaseFold : BOOLEAN, StringFold : BOOLEAN]

\* The heap after the DNs of `made` are built one after the other.
RECURSIVE BuildHeap(_, _)
BuildHeap(made, h) ==
    IF made = <<>> THEN h
    ELSE LET n == NewHeap(h.dns, h.rdns, NewLists(Head(made).text).val, FALSE)
             d == Len(n.dns)
         IN  BuildHeap(Tail(made),
                 [dns  |-> [n.dns EXCEPT ![d].CaseFold = Head(made).CaseFold,
                                         ![d].StringFold = Head(made).StringFold],
                  rdns |-> n.rdns])

InitSort ==
    \E k \in 2..MaxSort : \E made \in [1..k -> Built] :
        /\ dns = BuildHeap(made, [dns |-> <<>>, rdns |-> <<>>]).dns
        /\ rdns = BuildHeap(made, [dns |-> <<>>, rdns |-> <<>>]).rdns
        /\ last = Call("init", Nil, Nil, "nil", <<>>)
        /\ cl = NoClone
        /\ edits = 0

\* sort.Sort(DNS(xs)) on a slice xs of DN pointers
Sort(xs) ==
    /\ rdns' = SortDNS(dns, rdns, xs).rdns
    /\ last' = Call("Sort", Nil, xs, SortDNS(dns, rdns, xs).xs, <<>>)
    /\ cl' = NoClone
    /\ UNCHANGED dns

\* The slice that is sorted holds the DNs in the order they were built.
NextSort ==
    \/ last.op = "init" /\ Sort([i \in 1..Len(dns) |-> i]) /\ UNCHANGED edits
    \/ \E d \in DNs : last.op = "init" /\ String(d) /\ UNCHANGED edits

SpecSort == InitSort /\ [][NextSort]_vars

\* C1 (as claimed): after sort.Sort(DNS(xs)) no DN stands behind one of its
\* ancestors: there are no positions i < j with xs[j].IsSubordinate(xs[i]).
C1_DescendantsFirst ==
    last.op = "Sort" =>
        \A i \in 1..Len(last.ret), j \in 1..Len(last.ret) :
            i < j => ~IsSubordinateIn(dns, rdns, last.ret[j], last.ret[i])

---------------------------------------------------------------------------
(* CanonicalDN and the round trip through New, on DN texts *)

\* The AVA texts the DN texts are made of: two types in both letter cases and a
\* value with an escaped comma.
AVATexts ==
    { Str(<<"c", "n", "=", "a">>),
      Str(<<"C", "N", "=", "a">>),
      Str(<<"o", "u", "=", "b">>),
      Str(<<"O", "U", "=", "b">>),
      Str(<<"o", "u", "=", "b">>) \o <<92, 44>> \o Str(<<"c">>) }

\* The leaf RDN texts: one AVA, or two different AVA texts joined by "+".
LeafTexts ==
    AVATexts \cup { p[1] \o Str(<<"+">>) \o p[2] :
                        p \in { q \in AVATexts \X AVATexts : q[1] # q[2] } }

\* The DN texts: a leaf RDN alone or below dc=X, and one text that is not a DN.
DNTexts ==
    LeafTexts
      \cup { l \o Str(<<",", "d", "c", "=", "X">>) : l \in LeafTexts }
      \cup { Str(<<"c", "n", "=", "a", ",", "x">>) }

\* The two texts given to CanonicalDN side by side have the same length, as two
\* spellings of one DN that differ in letter case and AVA order do.
InitText ==
    \E s \in DNTexts, t \in DNTexts :
        /\ Len(s) = Len(t)
        /\ dns = <<>>
        /\ rdns = <<>>
        /\ last = Call("input", Nil, <<s, t>>, "nil", <<>>)
        /\ cl = NoClone
        /\ edits = 0

\* c1, e1 := CanonicalDN(s); c2, e2 := CanonicalDN(t)
CanonicalPair ==
    /\ last.op = "input"
    /\ last' = Call("CanonicalDN", Nil, last.arg,
                    <<CanonicalDN(last.arg[1], FALSE), CanonicalDN(last.arg[2], FALSE)>>,
                    <<>>)
    /\ UNCHANGED <<dns, rdns, cl, edits>>

\* c, _ := CanonicalDN(s); cc, e := CanonicalDN(c), for a text s that CanonicalDN accepts
CanonicalTwice ==
    /\ last.op = "input"
    /\ CanonicalDN(last.arg[1], FALSE).ok
    /\ LET c == CanonicalDN(last.arg[1], FALSE).val
       IN  last' = Call("CanonicalTwice", Nil, last.arg[1], CanonicalDN(c, FALSE), c)
    /\ UNCHANGED <<dns, rdns, cl, edits>>

\* a, _ := New(s); c, _ := CanonicalDN(s); b, e := New(c); a.Equal(b), for a text
\* s that New accepts.  CanonicalDN works on a DN of its own, which nothing
\* refers to once it has returned.
RoundTrip ==
    /\ last.op = "input"
    /\ NewLists(last.arg[1]).ok
    /\ \E a \in {NewHeap(dns, rdns, NewLists(last.arg[1]).val, FALSE)} :
       \E c \in {CanonicalDN(last.arg[1], FALSE).val} :
       \E n \in {NewLists(c)} :
           IF n.ok
           THEN /\ dns' = NewHeap(a.dns, a.rdns, n.val, FALSE).dns
                /\ rdns' = NewHeap(a.dns, a.rdns, n.val, FALSE).rdns
                /\ last' = Call("RoundTrip", Len(a.dns), Len(dns'),
                                DNEqualIn(dns', rdns', Len(a.dns), Len(dns')), c)
           ELSE /\ dns' = a.dns
                /\ rdns' = a.rdns
                /\ last' = Call("RoundTrip", Len(a.dns), Nil, "error", c)
    /\ UNCHANGED <<cl, edits>>

NextText ==
    \/ CanonicalPair
    \/ CanonicalTwice
    \/ RoundTrip

SpecText == InitText /\ [][NextText]_vars

\* C2 (as claimed): the DN built from the canonical string of a valid text s is
\* built without error and is Equal, CaseFold false, to the DN built from s.
C2_RoundTrip == last.op = "RoundTrip" => last.ret = TRUE

\* C3 (as claimed): the canonical string of a canonical string is that same string.
C3_Idempotent ==
    last.op = "CanonicalTwice" => last.ret.ok /\ last.ret.val = last.pre

\* No two AVAs of the list have the same type, letter case aside.
DistinctTypes(attrs) ==
    \A i, j \in 1..Len(attrs) : i # j => ~EqualFold(attrs[i].Type, attrs[j].Type)

\* The AVAs of a list with their types lowercased, as a set.
FoldedAVAs(attrs) ==
    { [Type |-> ToLower(attrs[i].Type), Value |-> attrs[i].Value] : i \in 1..Len(attrs) }

\* The two texts are DNs that differ at most in the letter case of attribute
\* types and in the order of the AVAs inside an RDN, types pairwise distinct.
SameUpToCaseAndOrder(s, t) ==
    LET a == NewLists(s)
        b == NewLists(t)
    IN  /\ a.ok /\ b.ok
        /\ Len(a.val) = Len(b.val)
        /\ \A i \in 1..Len(a.val) :
               /\ DistinctTypes(a.val[i]) /\ DistinctTypes(b.val[i])
               /\ Len(a.val[i]) = Len(b.val[i])
               /\ FoldedAVAs(a.val[i]) = FoldedAVAs(b.val[i])

\* The text has lowercase types and, in each RDN, AVAs in ascending order of type.
IsNormalized(c) ==
    LET n == NewLists(c)
    IN  /\ n.ok
        /\ \A i \in 1..Len(n.val) :
               /\ \A k \in 1..Len(n.val[i]) : n.val[i][k].Type = ToLower(n.val[i][k].Type)
               /\ \A k \in 1..(Len(n.val[i]) - 1) :
                      StrLess(n.val[i][k].Type, n.val[i][k + 1].Type)

\* C4 (as claimed): two texts that differ only in the letter case of types and
\* in the order of AVAs inside an RDN have the same canonical string, which has
\* lowercase types and each RDN's AVAs in ascending order of type.
C4_SingleNormalForm ==
    (last.op = "CanonicalDN" /\ SameUpToCaseAndOrder(last.arg[1], last.arg[2]))
        => /\ last.ret[1].ok /\ last.ret[2].ok
           /\ last.ret[1].val = last.ret[2].val
           /\ IsNormalized(last.ret[1].val)
---------------------------------------------------------------------------
(* Parent, Clone, Move and Rename on one DN and the DNs derived from it *)

\* The state after dn, err := New(t, fold): dn is object 1.
InitTree ==
    \E t \in TextsUpTo(MaxLen), fold \in BOOLEAN :
        LET h == NewHeap(<<>>, <<>>, NewLists(t).val, fold)
        IN  /\ dns = h.dns
            /\ rdns = h.rdns
            /\ last = Call("init", Nil, Nil, "nil", <<>>)
            /\ cl = NoClone
            /\ edits = 0

NextTree ==
    \/ \E d \in DNs : Parent(d) /\ UNCHANGED edits
    \/ \E d \in DNs : Clone(d) /\ UNCHANGED edits
    \/ \E d \in DNs, newBase \in DNs :
           edits < MaxEdits /\ Move(d, newBase) /\ edits' = edits + 1
    \/ \E d \in DNs, other \in DNs :
           edits < MaxEdits /\ Rename(d, other) /\ edits' = edits + 1

SpecTree == InitTree /\ [][NextTree]_vars

\* C11: a dn.Parent() call returns a DN object that did not exist before, over
\* RelativeDN objects that did not exist before, holding the attribute lists of
\* dn's RDNs at indexes 1..n-1 in order (none when dn has at most one RDN), and
\* leaves dn's flags, slice and attribute lists as they were.
C11_Parent ==
    [][last'.op = "Parent" =>
          LET d == last'.dn
              c == last'.ret
              before == Lists(rdns, dns[d].RDNs)
          IN  /\ c \in 1..Len(dns') /\ c \notin DNs
              /\ \A i \in 1..Len(dns'[c].RDNs) : dns'[c].RDNs[i] \notin 1..Len(rdns)
              /\ Lists(rdns', dns'[c].RDNs) =
                     (IF Len(before) <= 1 THEN <<>> ELSE SubSeq(before, 2, Len(before)))
              /\ dns'[d] = dns[d]
              /\ Lists(rdns', dns'[d].RDNs) = before]_vars

\* Parent was called on a DN of two or more RDNs, the first of them two-valued.
C11_Witness ==
    /\ last.op = "Parent"
    /\ Len(dns[last.dn].RDNs) >= 2
    /\ Len(dns[last.ret].RDNs) = Len(dns[last.dn].RDNs) - 1
    /\ Len(rdns[dns[last.dn].RDNs[1]]) = 2
\* C12: a dn.Move(newBase) call on a DN with at least one RDN, newBase another
\* DN, leaves dn with its previous leaf RDN followed by the RDNs of newBase in
\* order and nothing else; a dn.Rename(r) call that follows replaces RDNs[0] by
\* r and nothing else. Neither call writes an attribute list or another DN.
C12_MoveThenRename ==
    [][/\ (last'.op = "Move" /\ last'.arg # last'.dn) =>
              /\ dns'[last'.dn].RDNs = <<dns[last'.dn].RDNs[1]>> \o dns[last'.arg].RDNs
              /\ \A e \in DNs \ {last'.dn} : dns'[e] = dns[e]
              /\ rdns' = rdns
       /\ (last.op = "Move" /\ last'.op = "Rename" /\ last'.dn = last.dn) =>
              /\ dns'[last'.dn].RDNs[1] = dns[last'.arg].RDNs[1]
              /\ Len(dns'[last'.dn].RDNs) = Len(dns[last'.dn].RDNs)
              /\ \A i \in 2..Len(dns[last'.dn].RDNs) :
                     dns'[last'.dn].RDNs[i] = dns[last'.dn].RDNs[i]
              /\ rdns' = rdns]_vars

\* Move was called on a DN that had ancestors, with another, non-empty DN as the
\* new base.
C12_Witness ==
    /\ last.op = "Move"
    /\ last.arg # last.dn
    /\ Len(last.pre) >= 2
    /\ Len(dns[last.arg].RDNs) >= 1
    /\ Len(dns[last.dn].RDNs) = 1 + Len(dns[last.arg].RDNs)

\* C18 (as claimed): the DN returned by dn.Clone() or dn.Parent() has the
\* CaseFold and StringFold values of dn.
C18_FlagsTravel ==
    last.op \in {"Clone", "Parent"} =>
        /\ dns[last.ret].CaseFold = dns[last.dn].CaseFold
        /\ dns[last.ret].StringFold = dns[last.dn].StringFold
---------------------------------------------------------------------------
(* Pretty *)

\* unicode.ToUpper on one ASCII byte.
UpperByte(c) == IF c >= 97 /\ c <= 122 THEN c - 32 ELSE c

\* strings.Title: a letter that starts a word (it follows the start of the
\* string or a byte that is no letter, digit or underscore) is uppercased.
Title(str) ==
    [i \in 1..Len(str) |->
        IF i = 1 \/ ~(IsLetter(str[i - 1]) \/ IsDigit(str[i - 1]) \/ str[i - 1] = 95)
        THEN UpperByte(str[i]) ELSE str[i]]

\* conv(value): strings.Title when conv is nil, else the function given, here
\* strings.ToLower.
Conv(conv, value) == IF conv = "nil" THEN Title(value) ELSE ToLower(value)

\* The loop of Pretty: rdn := dn.RDN(); for rdn != "" { parts = append(parts,
\* rdn); dn = dn.Parent(); rdn = dn.RDN() }. The parents are clones that hold
\* the same values; nothing refers to them once Pretty has returned.
RECURSIVE PrettyParts(_, _)
PrettyParts(R, ptrs) ==
    IF RDNValue(R, ptrs) = <<>> THEN <<>>
    ELSE <<RDNValue(R, ptrs)>> \o PrettyParts(R, ParentRDNs(ptrs))

\* What Pretty returns for a DN whose slice is ptrs after dn.Strip(base).
PrettyString(R, ptrs, sep, conv) ==
    LET parts == PrettyParts(R, ptrs)
        rev   == [i \in 1..Len(parts) |-> Conv(conv, parts[Len(parts) + 1 - i])]
    IN  Join(rev, IF sep = <<>> THEN <<47>> ELSE sep)

\* dn.Pretty(base, sep, conv), base possibly nil: _ = dn.Strip(base) works on the
\* receiver itself.
Pretty(d, base, sep, conv) ==
    /\ dns' = [dns EXCEPT ![d].RDNs =
                  IF IsSubordinateIn(dns, rdns, d, base)
                  THEN StripRDNs(@, dns[base].RDNs) ELSE @]
    /\ last' = Call("Pretty", d, [base |-> base, sep |-> sep, conv |-> conv],
                    PrettyString(rdns, dns'[d].RDNs, sep, conv), dns[d].RDNs)
    /\ cl' = Touch(d)
    /\ UNCHANGED rdns

\* NewRDN(rdn...) for an even number of arguments: the attribute list of the
\* new RelativeDN, one AVA per pair.
NewRDN(args) ==
    [i \in 1..(Len(args) \div 2) |-> [Type |-> args[2 * i - 1], Value |-> args[2 * i]]]

\* r, _ := NewRDN(args...); dn.Rename(r)
RenameNew(d, args) ==
    /\ Len(dns[d].RDNs) >= 1
    /\ rdns' = Append(rdns, NewRDN(args))
    /\ dns' = [dns EXCEPT ![d].RDNs = RenameRDNs(@, Len(rdns) + 1)]
    /\ last' = Call("Rename", d, Nil, "nil", dns[d].RDNs)
    /\ cl' = Touch(d)

\* The arguments NewRDN is called with: a value, and an empty value.
RDNArgs ==
    { <<Str(<<"c", "n">>), Str(<<"j", " ", "s">>)>>,
      <<Str(<<"c", "n">>), <<>>>> }

\* The separators Pretty is called with: none and "-".
Seps == { <<>>, Str(<<"-">>) }

\* The texts of the DN Pretty is called on and of its base.
PrettyTexts ==
    { Str(<<"c", "n", "=", "j", " ", "s", ",", "d", "c", "=", "x">>),
      Str(<<"o", "u", "=", "a", "+", "c", "n", "=", "b", ",", "d", "c", "=", "x">>),
      Str(<<"d", "c", "=", "x", ",", "d", "c", "=", "x">>) }

BaseTexts == { Str(<<"d", "c", "=", "x">>), Str(<<"d", "c", "=", "y">>), <<>> }

\* The state after dn, err := New(t1) and base, err := New(t2): dn is object 1,
\* base is object 2.
InitPretty ==
    \E t1 \in PrettyTexts, t2 \in BaseTexts :
        LET h1 == NewHeap(<<>>, <<>>, NewLists(t1).val, FALSE)
            h2 == NewHeap(h1.dns, h1.rdns, NewLists(t2).val, FALSE)
        IN  /\ dns = h2.dns
            /\ rdns = h2.rdns
            /\ last = Call("init", Nil, Nil, "nil", <<>>)
            /\ cl = NoClone
            /\ edits = 0

NextPretty ==
    \/ \E d \in DNs, base \in DNs \cup {Nil}, sep \in Seps, conv \in {"nil", "ToLower"} :
           Pretty(d, base, sep, conv) /\ UNCHANGED edits
    \/ \E d \in DNs, args \in RDNArgs :
           edits < MaxEdits /\ RenameNew(d, args) /\ edits' = edits + 1

SpecPretty == InitPretty /\ [][NextPretty]_vars

\* The first-AVA values of the RDNs of a slice in root-to-leaf order, each
\* passed through conv.
Segments(R, ptrs, conv) ==
    [i \in 1..Len(ptrs) |-> Conv(conv, R[ptrs[Len(ptrs) + 1 - i]][1].Value)]

\* C13 (as claimed): Pretty returns one segment per RDN that dn has after base
\* is stripped (dn holds exactly those RDNs after the call): the first-AVA
\* values root to leaf, each through conv, joined by sep, "/" when sep is empty.
C13_PrettySegments ==
    last.op = "Pretty" =>
        last.ret = Join(Segments(rdns, dns[last.dn].RDNs, last.arg.conv),
                        IF last.arg.sep = <<>> THEN <<47>> ELSE last.arg.sep)

\* C17 (as claimed): after dn.Pretty(base, sep, conv) dn has the RDN sequence
\* it had before the call.
C17_PrettyKeepsDN == last.op = "Pretty" => dns[last.dn].RDNs = last.pre
---------------------------------------------------------------------------
(* escapeValue on values *)

\* The longest value escapeValue is given.
MaxValueLen == 3

\* The runes of the values: , \ = # (reserved), BEL and US (control), space, a,
\* DEL, and c with caron (U+010D, outside ASCII).
EscapeRunes == {44, 92, 61, 35, 7, 31, 32, 97, 127, 269}

InitEscape ==
    \E n \in 0..MaxValueLen : \E value \in [1..n -> EscapeRunes] :
        /\ dns = <<>>
        /\ rdns = <<>>
        /\ last = Call("input", Nil, value, "nil", <<>>)
        /\ cl = NoClone
        /\ edits = 0

\* escaped := escapeValue(value)
Escape ==
    /\ last.op = "input"
    /\ last' = Call("escapeValue", Nil, last.arg, escapeValue(last.arg), <<>>)
    /\ UNCHANGED <<dns, rdns, cl, edits>>

NextEscape == Escape

SpecEscape == InitEscape /\ [][NextEscape]_vars

\* What the escaped text of one character is to be: backslash and the character
\* for , + " \ < > ; # =, backslash and two lowercase hex digits below 0x20, the
\* character itself otherwise.
Escaped(c) ==
    IF c \in {44, 43, 34, 92, 60, 62, 59, 35, 61} THEN <<92, c>>
    ELSE IF c < 32
         THEN <<92, (IF (c \div 16) < 10 THEN 48 ELSE 87) + (c \div 16),
                    (IF (c % 16) < 10 THEN 48 ELSE 87) + (c % 16)>>
    ELSE <<c>>

\* From position i on, every reserved or control character of out is the
\* second character of a backslash escape.
RECURSIVE NoneBare(_, _)
NoneBare(out, i) ==
    IF i > Len(out) THEN TRUE
    ELSE IF out[i] = 92
         THEN /\ i < Len(out)
              /\ IF out[i + 1] \in Reserved THEN NoneBare(out, i + 2)
                 ELSE /\ i + 2 <= Len(out)
                      /\ IsHex(out[i + 1]) /\ IsHex(out[i + 2])
                      /\ NoneBare(out, i + 3)
    ELSE out[i] \notin Reserved /\ out[i] >= 32 /\ NoneBare(out, i + 1)

\* C14: escapeValue(value) is the concatenation of the escaped texts of the
\* characters of value, each mapped on its own, and holds no reserved or
\* control character outside an escape.
C14_EscapeValue ==
    last.op = "escapeValue" =>
        /\ last.ret = Join([i \in 1..Len(last.arg) |-> Escaped(last.arg[i])], <<>>)
        /\ NoneBare(last.ret, 1)

\* escapeValue was given a reserved character, a control character and a
\* character that needs no escape.
C14_Witness ==
    /\ last.op = "escapeValue"
    /\ \E i, j, k \in 1..Len(last.arg) :
           /\ last.arg[i] \in Reserved
           /\ last.arg[j] < 32
           /\ last.arg[k] >= 32 /\ last.arg[k] \notin Reserved
---------------------------------------------------------------------------
(* DNS.Less in both directions *)

\* The texts of the two DNs compared: an RDN with two AVAs in two spellings of
\* its types, an entry below it, and a single-valued RDN in two letter cases.
LessTexts ==
    { Str(<<"O", "U", "=", "a", "+", "c", "n", "=", "b">>),
      Str(<<"c", "n", "=", "y", ",", "o", "u", "=", "a", "+", "C", "N", "=", "b">>),
      Str(<<"d", "c", "=", "C">>),
      Str(<<"d", "c", "=", "b">>) }

BuiltLess == [text : LessTexts, CaseFold : BOOLEAN, StringFold : BOOLEAN]

\* The state after a and b are built by New and their public flags set: a is
\* object 1, b is object 2.
InitLess ==
    \E made \in [1..2 -> BuiltLess] :
        /\ dns = BuildHeap(made, [dns |-> <<>>, rdns |-> <<>>]).dns
        /\ rdns = BuildHeap(made, [dns |-> <<>>, rdns |-> <<>>]).rdns
        /\ last = Call("init", Nil, Nil, "nil", <<>>)
        /\ cl = NoClone
        /\ edits = 0

\* d := DNS{a, b}; ab := d.Less(0, 1); ba := d.Less(1, 0)
LessBoth(a, b) ==
    /\ \E ab \in {LessIn(dns, rdns, a, b)} :
       \E ba \in {LessIn(dns, ab.rdns, b, a)} :
           /\ rdns' = ba.rdns
           /\ last' = Call("LessBoth", a, b, <<ab.lt, ba.lt>>, dns[a].RDNs)
    /\ cl' = NoClone
    /\ UNCHANGED dns

NextLess ==
    \E a \in DNs, b \in DNs :
        a # b /\ last.op = "init" /\ LessBoth(a, b) /\ UNCHANGED edits

SpecLess == InitLess /\ [][NextLess]_vars

\* C15 (as claimed): for no two DNs a and b are Less(a, b) and Less(b, a) both true.
C15_LessAsymmetric == last.op = "LessBoth" => ~(last.ret[1] /\ last.ret[2])

\* The same for two DNs that come from New without a fold argument.
LessAsymmetricNoFlags ==
    (/\ last.op = "LessBoth"
     /\ \A d \in DNs : ~dns[d].CaseFold /\ ~dns[d].StringFold)
        => ~(last.ret[1] /\ last.ret[2])
---------------------------------------------------------------------------
(* RelativeDN.Less of the variant in src/ldapdn.go *)

\* The loop of RelativeDN.Less from index i on: true as soon as a type is
\* smaller, or a value is smaller, than its counterpart; false when the loop ends.
RECURSIVE RDNLessFrom(_, _, _, _)
RDNLessFrom(r, o, fold, i) ==
    IF i > Len(r) THEN FALSE
    ELSE IF StrLess(ToLower(r[i].Type), ToLower(o[i].Type)) THEN TRUE
    ELSE IF fold /\ StrLess(ToLower(r[i].Value), ToLower(o[i].Value)) THEN TRUE
    ELSE IF ~fold /\ StrLess(r[i].Value, o[i].Value) THEN TRUE
    ELSE RDNLessFrom(r, o, fold, i + 1)

\* r.Less(o, fold) on the attribute lists of r and o.
RDNLess(r, o, fold) ==
    IF Len(r) # Len(o) THEN Len(r) < Len(o) ELSE RDNLessFrom(r, o, fold, 1)

\* The most AVAs an RDN given to Less has.
MaxAVAs == 2

\* The AVAs of the RDNs compared.
LessAVAs ==
    { [Type |-> Str(<<"c", "n">>), Value |-> Str(<<"z">>)],
      [Type |-> Str(<<"C", "N">>), Value |-> Str(<<"B">>)],
      [Type |-> Str(<<"o", "u">>), Value |-> Str(<<"a">>)],
      [Type |-> Str(<<"o", "u">>), Value |-> Str(<<"b">>)] }

\* The state after r and o are built by NewRDN: r is RelativeDN 1, o is RelativeDN 2.
InitRDNLess ==
    \E n \in 1..MaxAVAs, k \in 1..MaxAVAs :
    \E r \in [1..n -> LessAVAs], o \in [1..k -> LessAVAs] :
        /\ dns = <<>>
        /\ rdns = <<r, o>>
        /\ last = Call("init", Nil, Nil, "nil", <<>>)
        /\ cl = NoClone
        /\ edits = 0

\* ro := r.Less(o, fold); or := o.Less(r, fold)
RDNLessBoth(fold) ==
    /\ last.op = "init"
    /\ last' = Call("RDNLess", Nil, fold,
                    <<RDNLess(rdns[1], rdns[2], fold), RDNLess(rdns[2], rdns[1], fold)>>,
                    <<>>)
    /\ UNCHANGED <<dns, rdns, cl, edits>>

NextRDNLess == \E fold \in BOOLEAN : RDNLessBoth(fold)

SpecRDNLess == InitRDNLess /\ [][NextRDNLess]_vars

\* The pair an AVA is ordered by: its lowercased type and its value, lowercased
\* when fold.
LessKey(a, fold) == <<ToLower(a.Type), IF fold THEN ToLower(a.Value) ELSE a.Value>>

\* The order the claim states: fewer AVAs first; for equal counts the first
\* position where the keys differ decides, by type and then by value.
RECURSIVE Lexicographic(_, _, _, _)
Lexicographic(r, o, fold, i) ==
    IF i > Len(r) THEN FALSE
    ELSE IF LessKey(r[i], fold) = LessKey(o[i], fold) THEN Lexicographic(r, o, fold, i + 1)
    ELSE \/ StrLess(LessKey(r[i], fold)[1], LessKey(o[i], fold)[1])
         \/ /\ LessKey(r[i], fold)[1] = LessKey(o[i], fold)[1]
            /\ StrLess(LessKey(r[i], fold)[2], LessKey(o[i], fold)[2])

\* C16 (as claimed): Less(o, fold) is the lexicographic order by position over
\* (lowercased type, value) for RDNs of equal AVA count, fewer AVAs first, and
\* Less(a, b) and Less(b, a) are never both true.
C16_RDNLessLexicographic ==
    last.op = "RDNLess" =>
        /\ last.ret[1] = (IF Len(rdns[1]) # Len(rdns[2]) THEN Len(rdns[1]) < Len(rdns[2])
                          ELSE Lexicographic(rdns[1], rdns[2], last.arg, 1))
        /\ ~(last.ret[1] /\ last.ret[2])
====
